---- MODULE Spec2Model ----
(***************************************************************************)
(* Bidirectional breadth-first search between two people over the          *)
(* person/movie credit graph (src/app.py): the two lru_cache'd neighbour   *)
(* lookups, bidir_bfs_people with its nested expand, and reconstruct.      *)
(***************************************************************************)
EXTENDS Integers, Sequences, FiniteSets, TLC

(* ------------------------------ bounds -------------------------------- *)

\* largest max_edges a caller passes
MaxK == 4
\* entries each lru_cache keeps (maxsize=10_000 in the source, scaled down
\* so that eviction happens inside the model)
MaxSize == 2

\* the provider's catalogue: the people and movies it knows. Every table of
\* credits between them is a provider the model starts from.
PersonIds == {1, 2, 3}
MovieIds == {10, 20}
\* an id the provider does not know: every request for it is answered 404
UnknownId == Cardinality(PersonIds) + 1
CallerIds == PersonIds \cup {UnknownId}
EdgeLimits == (0 - 1)..MaxK

None == <<>>
Person(id) == <<"person", id>>
Movie(id) == <<"movie", id>>

VARIABLES
    personCredits,  \* provider: person id -> ids of the movies in "cast" of /person/{id}/movie_credits
    movieCredits,   \* provider: movie id -> ids of the people in "cast" of /movie/{id}/credits
    cacheP,         \* lru_cache of _person_movies_cached, least recently used first
    cacheM,         \* lru_cache of _movie_cast_cached, least recently used first
    pc,             \* where bidir_bfs_people is
    source_id, target_id, max_edges,
    qa, qb, pa, pb, visited_a, visited_b,
    n,              \* iterations left of "for _ in range(len(q))"
    depth,
    result,         \* the returned value: a path, or None
    failed,         \* the node whose provider request raised, or None
    calls           \* provider requests made since the call began

vars == <<personCredits, movieCredits, cacheP, cacheM, pc, source_id, target_id,
          max_edges, qa, qb, pa, pb, visited_a, visited_b, n, depth, result,
          failed, calls>>

provider == <<personCredits, movieCredits>>
locals == <<qa, qb, pa, pb, visited_a, visited_b, n, depth>>
args == <<source_id, target_id, max_edges>>

(* ------------------------- provider and caches ------------------------- *)

Min(S) == CHOOSE x \in S : \A y \in S : x <= y

\* tuple(sorted({...})): the ids of a response, ascending, each once
RECURSIVE SortedTuple(_)
SortedTuple(S) ==
    IF S = {} THEN <<>>
    ELSE <<Min(S)>> \o SortedTuple(S \ {Min(S)})

\* what the provider's "cast" list holds for a node
Credits(node) ==
    IF node[1] = "person" THEN personCredits[node[2]] ELSE movieCredits[node[2]]

\* tmdb_get raises (raise_for_status) for an id the provider does not know
Known(node) ==
    IF node[1] = "person" THEN node[2] \in PersonIds ELSE node[2] \in MovieIds

\* the body of _person_movies_cached / _movie_cast_cached on a good response
Fetch(node) == SortedTuple(Credits(node))

CacheKeys(cache) == {cache[i].key : i \in 1..Len(cache)}

CacheIndex(cache, key) == CHOOSE i \in 1..Len(cache) : cache[i].key = key

\* a hit that answers with the newest entry, whatever its key
CacheValueNewest(cache, key) == cache[Len(cache)].val

CacheValue(cache, key) == cache[CacheIndex(cache, key)].val

Without(cache, i) == SubSeq(cache, 1, i - 1) \o SubSeq(cache, i + 1, Len(cache))

\* lru_cache on a hit: the entry becomes the most recently used
CacheHit(cache, key) ==
    LET i == CacheIndex(cache, key)
    IN  Append(Without(cache, i), cache[i])

\* lru_cache on a miss whose call returned val: the oldest entry goes when full
CacheStore(cache, key, val) ==
    LET e == [key |-> key, val |-> val]
    IN  IF Len(cache) >= MaxSize THEN Append(Tail(cache), e) ELSE Append(cache, e)

\* a failed call remembered as "no neighbours"
CacheRaiseStoresEmpty(cache, key) == CacheStore(cache, key, <<>>)

\* lru_cache on a miss whose call raised: nothing is stored
CacheRaise(cache, key) == cache

CacheOf(node) == IF node[1] = "person" THEN cacheP ELSE cacheM

(* ------------------------------- expand -------------------------------- *)

Other(tag) == IF tag = "person" THEN "movie" ELSE "person"

\* "if nxt not in visited"
Unseen(visited, nxt) == nxt \notin visited

\* the loop body without "visited.add(nxt)"
VisitNoMark(st, node, nxt, other_visited) ==
    IF Unseen(st.visited, nxt)
    THEN [q       |-> Append(st.q, nxt),
          parents |-> [x \in DOMAIN st.parents \cup {nxt} |->
                          IF x = nxt THEN node ELSE st.parents[x]],
          visited |-> st.visited,
          meet    |-> IF nxt \in other_visited THEN nxt ELSE None]
    ELSE st

\* the body of "for mid in ...": st is [q, parents, visited, meet]
Visit(st, node, nxt, other_visited) ==
    IF Unseen(st.visited, nxt)
    THEN [q       |-> Append(st.q, nxt),
          parents |-> [x \in DOMAIN st.parents \cup {nxt} |->
                          IF x = nxt THEN node ELSE st.parents[x]],
          visited |-> st.visited \cup {nxt},
          meet    |-> IF nxt \in other_visited THEN nxt ELSE None]
    ELSE st

\* the for loop over one node's neighbour ids, left at the first meeting
RECURSIVE Scan(_, _, _, _, _)
Scan(st, node, ids, i, other_visited) ==
    IF i > Len(ids) \/ st.meet # None THEN st
    ELSE Scan(Visit(st, node, <<Other(node[1]), ids[i]>>, other_visited),
              node, ids, i + 1, other_visited)

\* one iteration of "for _ in range(len(q))" given the node's neighbour ids
ExpandNode(q, parents, visited, other_visited, ids) ==
    Scan([q |-> Tail(q), parents |-> parents, visited |-> visited, meet |-> None],
         Head(q), ids, 1, other_visited)

(* ----------------------------- reconstruct ----------------------------- *)

\* dict.get
Get(m, k) == IF k \in DOMAIN m THEN m[k] ELSE None

\* "while cur is not None: out.append(cur); cur = parents.get(cur)"
RECURSIVE Walk(_, _)
Walk(parents, cur) ==
    IF cur = None THEN <<>> ELSE <<cur>> \o Walk(parents, Get(parents, cur))

\* "left.reverse()" left out
NoReverse(s) == s

Reverse(s) == [i \in 1..Len(s) |-> s[Len(s) + 1 - i]]

\* "right, cur = [], meet": the meeting node a second time
RightStartAtMeet(parents, meet) == meet

\* "right, cur = [], pb.get(meet)"
RightStart(parents, meet) == Get(parents, meet)

reconstruct(parentsA, parentsB, meet) ==
    Reverse(Walk(parentsA, meet)) \o Walk(parentsB, RightStart(parentsB, meet))

(* ----------------------------- the search ------------------------------ *)

\* a neighbour lookup through the node's lru_cache; ok: the provider answers
Lookup(node, ok) ==
    LET cache == CacheOf(node)
        key == node[2]
    IN  IF key \in CacheKeys(cache)
        THEN [raised |-> FALSE, called |-> FALSE, cache |-> CacheHit(cache, key),
              ids |-> CacheValue(cache, key)]
        ELSE IF ok /\ Known(node)
        THEN [raised |-> FALSE, called |-> TRUE,
              cache |-> CacheStore(cache, key, Fetch(node)), ids |-> Fetch(node)]
        ELSE [raised |-> TRUE, called |-> TRUE, cache |-> CacheRaise(cache, key),
              ids |-> <<>>]

SetCache(node, cache) ==
    IF node[1] = "person"
    THEN cacheP' = cache /\ UNCHANGED cacheM
    ELSE cacheM' = cache /\ UNCHANGED cacheP

\* "qa and qb and depth <= max_edges"
While(q1, q2, d, k) == q1 # <<>> /\ q2 # <<>> /\ d <= k

\* "depth += 1" left out
SameDepth(d) == d

\* "depth += 1"
NextDepth(d) == d + 1

\* the loop test of bidir_bfs_people
LoopCond == While(qa, qb, depth, max_edges)

\* the provider's tables when both list exactly the credits in E, except
\* that the credits in D are missing from one of the two
PersonTable(E) == [p \in PersonIds |-> {m \in MovieIds : <<p, m>> \in E}]
MovieTable(E) == [m \in MovieIds |-> {p \in PersonIds : <<p, m>> \in E}]

Idle ==
    /\ pc = "idle"
    /\ source_id = 0 /\ target_id = 0 /\ max_edges = 0
    /\ qa = <<>> /\ qb = <<>> /\ pa = <<>> /\ pb = <<>>
    /\ visited_a = {} /\ visited_b = {}
    /\ n = 0 /\ depth = 0
    /\ result = None /\ failed = None /\ calls = 0

\* any provider whose two tables agree, or differ in one credit
InitProvider ==
    \E E \in SUBSET (PersonIds \X MovieIds), side \in {"person", "movie"} :
    \E D \in {X \in SUBSET E : Cardinality(X) <= 1} :
        /\ personCredits = PersonTable(IF side = "person" THEN E \ D ELSE E)
        /\ movieCredits = MovieTable(IF side = "movie" THEN E \ D ELSE E)

Init ==
    /\ InitProvider
    /\ cacheP = <<>> /\ cacheM = <<>>
    /\ Idle

\* bidir_bfs_people(x, y, k) up to the while loop
Start(x, y, k) ==
    /\ pc = "idle"
    /\ source_id' = x /\ target_id' = y /\ max_edges' = k
    /\ IF x = y
       THEN /\ result' = <<Person(x)>>
            /\ pc' = "returned"
            /\ UNCHANGED locals
       ELSE /\ qa' = <<Person(x)>> /\ qb' = <<Person(y)>>
            /\ pa' = [v \in {Person(x)} |-> None]
            /\ pb' = [v \in {Person(y)} |-> None]
            /\ visited_a' = {Person(x)} /\ visited_b' = {Person(y)}
            /\ depth' = 0
            /\ pc' = "loop"
            /\ UNCHANGED <<n, result>>
    /\ UNCHANGED <<provider, cacheP, cacheM, failed, calls>>

\* the loop test: into expand(qa, ...) or out to "return None"
LoopTest ==
    /\ pc = "loop"
    /\ IF LoopCond
       THEN pc' = "expandA" /\ n' = Len(qa) /\ UNCHANGED result
       ELSE pc' = "returned" /\ result' = None /\ UNCHANGED n
    /\ UNCHANGED <<provider, cacheP, cacheM, args, qa, qb, pa, pb, visited_a,
                   visited_b, depth, failed, calls>>

\* one iteration of expand(qa, pa, visited_a, visited_b)
ExpandA ==
    /\ pc = "expandA" /\ n > 0
    /\ \E ok \in BOOLEAN :
        LET node == Head(qa)
            r == Lookup(node, ok)
            st == ExpandNode(qa, pa, visited_a, visited_b, r.ids)
        IN  /\ SetCache(node, r.cache)
            /\ calls' = IF r.called THEN calls + 1 ELSE calls
            /\ IF r.raised
               THEN /\ pc' = "raised" /\ failed' = node
                    /\ qa' = Tail(qa)
                    /\ UNCHANGED <<pa, visited_a, n, result>>
               ELSE /\ qa' = st.q /\ pa' = st.parents /\ visited_a' = st.visited
                    /\ UNCHANGED failed
                    /\ IF st.meet # None
                       THEN /\ pc' = "returned"
                            /\ result' = reconstruct(st.parents, pb, st.meet)
                            /\ UNCHANGED n
                       ELSE /\ n' = n - 1
                            /\ UNCHANGED <<pc, result>>
    /\ UNCHANGED <<provider, args, qb, pb, visited_b, depth>>

\* expand(qa, ...) returned None: on to expand(qb, pb, visited_b, visited_a)
EndExpandA ==
    /\ pc = "expandA" /\ n = 0
    /\ pc' = "expandB" /\ n' = Len(qb)
    /\ UNCHANGED <<provider, cacheP, cacheM, args, qa, qb, pa, pb, visited_a,
                   visited_b, depth, result, failed, calls>>

\* one iteration of expand(qb, pb, visited_b, visited_a)
ExpandB ==
    /\ pc = "expandB" /\ n > 0
    /\ \E ok \in BOOLEAN :
        LET node == Head(qb)
            r == Lookup(node, ok)
            st == ExpandNode(qb, pb, visited_b, visited_a, r.ids)
        IN  /\ SetCache(node, r.cache)
            /\ calls' = IF r.called THEN calls + 1 ELSE calls
            /\ IF r.raised
               THEN /\ pc' = "raised" /\ failed' = node
                    /\ qb' = Tail(qb)
                    /\ UNCHANGED <<pb, visited_b, n, result>>
               ELSE /\ qb' = st.q /\ pb' = st.parents /\ visited_b' = st.visited
                    /\ UNCHANGED failed
                    /\ IF st.meet # None
                       THEN /\ pc' = "returned"
                            /\ result' = reconstruct(pa, st.parents, st.meet)
                            /\ UNCHANGED n
                       ELSE /\ n' = n - 1
                            /\ UNCHANGED <<pc, result>>
    /\ UNCHANGED <<provider, args, qa, pa, visited_a, depth>>

\* expand(qb, ...) returned None: "depth += 1" and back to the loop test
EndExpandB ==
    /\ pc = "expandB" /\ n = 0
    /\ depth' = NextDepth(depth)
    /\ pc' = "loop"
    /\ UNCHANGED <<provider, cacheP, cacheM, args, qa, qb, pa, pb, visited_a,
                   visited_b, n, result, failed, calls>>

Call == \E x \in CallerIds, y \in CallerIds, k \in EdgeLimits : Start(x, y, k)

Next ==
    \/ Call
    \/ LoopTest
    \/ ExpandA
    \/ EndExpandA
    \/ ExpandB
    \/ EndExpandB

Spec == Init /\ [][Next]_vars

\* the interpreter keeps running the call: a step that can be taken is taken
SpecLive == Spec /\ WF_vars(Next)

\* the caller has the outcome; the locals of the call are gone, the two
\* caches stay
Return ==
    /\ pc \in {"returned", "raised"}
    /\ pc' = "idle"
    /\ source_id' = 0 /\ target_id' = 0 /\ max_edges' = 0
    /\ qa' = <<>> /\ qb' = <<>> /\ pa' = <<>> /\ pb' = <<>>
    /\ visited_a' = {} /\ visited_b' = {}
    /\ n' = 0 /\ depth' = 0
    /\ result' = None /\ failed' = None /\ calls' = 0
    /\ UNCHANGED <<provider, cacheP, cacheM>>

\* a provider whose two tables agree
InitSession ==
    /\ \E E \in SUBSET (PersonIds \X MovieIds) :
        /\ personCredits = PersonTable(E)
        /\ movieCredits = MovieTable(E)
    /\ cacheP = <<>> /\ cacheM = <<>>
    /\ Idle

NextSession == Next \/ Return

SpecSession == InitSession /\ [][NextSession]_vars

(* ------------------- the search without the two caches ------------------ *)

\* expand(q, parents, visited, other_visited) with every lookup answered by
\* the provider: cnt iterations of the for loop, left at the first meeting
RECURSIVE Level(_, _, _, _, _)
Level(q, parents, visited, other_visited, cnt) ==
    IF cnt = 0
    THEN [q |-> q, parents |-> parents, visited |-> visited, meet |-> None]
    ELSE LET st == ExpandNode(q, parents, visited, other_visited, Fetch(Head(q)))
         IN  IF st.meet # None THEN st
             ELSE Level(st.q, st.parents, st.visited, other_visited, cnt - 1)

\* the while loop of bidir_bfs_people from round d on
RECURSIVE Rounds(_, _, _, _, _, _, _, _)
Rounds(q1, q2, p1, p2, v1, v2, d, k) ==
    IF ~While(q1, q2, d, k) THEN None
    ELSE LET a == Level(q1, p1, v1, v2, Len(q1))
         IN  IF a.meet # None THEN reconstruct(a.parents, p2, a.meet)
             ELSE LET b == Level(q2, p2, v2, a.visited, Len(q2))
                  IN  IF b.meet # None
                      THEN reconstruct(a.parents, b.parents, b.meet)
                      ELSE Rounds(a.q, b.q, a.parents, b.parents,
                                  a.visited, b.visited, d + 1, k)

\* bidir_bfs_people(x, y, k) when no lookup is cached and none fails
Uncached(x, y, k) ==
    IF x = y THEN <<Person(x)>>
    ELSE Rounds(<<Person(x)>>, <<Person(y)>>,
                [v \in {Person(x)} |-> None], [v \in {Person(y)} |-> None],
                {Person(x)}, {Person(y)}, 0, k)

(* ------------------------ reference definitions ------------------------ *)

\* the provider's neighbour set of a node
Nbrs(node) == {<<Other(node[1]), i>> : i \in Credits(node)}

\* the two tables list the same credits
Consistent ==
    \A p \in PersonIds, m \in MovieIds :
        (m \in personCredits[p]) <=> (p \in movieCredits[m])

NoRoute == 0 - 1

\* plain breadth-first search: the number of edges from the frontier's root
\* to goal, level by level
RECURSIVE Bfs(_, _, _, _)
Bfs(frontier, seen, d, goal) ==
    IF goal \in frontier THEN d
    ELSE IF frontier = {} THEN NoRoute
    ELSE LET nxt == UNION {Nbrs(v) : v \in frontier} \ seen
         IN  Bfs(nxt, seen \cup nxt, d + 1, goal)

Distance(root, goal) == Bfs({root}, {root}, 0, goal)

\* edges from v up its parent chain to the root
ChainLen(parents, v) == Len(Walk(parents, v)) - 1

KnownRoots == source_id \in PersonIds /\ target_id \in PersonIds

Edges(path) == Len(path) - 1

Running == pc \in {"loop", "expandA", "expandB"}
Terminal == pc \in {"returned", "raised"}

(* ------------------------------- claims -------------------------------- *)

\* C1: when the two tables agree, the people differ and the true distance d
\* between them is at most max_edges, the call returns a path of exactly d
\* edges.
C1_ShortestWithinLimit ==
    (pc = "returned" /\ source_id # target_id /\ KnownRoots /\ Consistent
        /\ max_edges >= 0)
    => LET d == Distance(Person(source_id), Person(target_id))
       IN  (d # NoRoute /\ d <= max_edges) => (result # None /\ Edges(result) = d)

C1_Witness ==
    /\ pc = "returned" /\ Consistent /\ KnownRoots
    /\ Distance(Person(source_id), Person(target_id)) = 4
    /\ max_edges >= 4
    /\ result # None /\ Edges(result) = 4

\* C2: when the people are not connected within max_edges edges the call
\* returns None, and no returned path has more than max_edges edges.
C2_NoPathBeyondLimit ==
    (pc = "returned" /\ source_id # target_id /\ KnownRoots /\ Consistent)
    => LET d == Distance(Person(source_id), Person(target_id))
       IN  /\ (d = NoRoute \/ d > max_edges) => result = None
           /\ result # None => Edges(result) <= max_edges

\* C3: in a returned path every node is in the provider's neighbour set of
\* the node before it.
C3_EveryStepIsACredit ==
    (pc = "returned" /\ result # None)
    => \A i \in 1..(Len(result) - 1) : result[i + 1] \in Nbrs(result[i])

\* C4: a returned path starts at the source, ends at the target, repeats no
\* node and alternates person, movie, person; for source = target it is the
\* one-element path and no provider request was made.
C4_PathShape ==
    (pc = "returned" /\ result # None)
    => /\ result[1] = Person(source_id)
       /\ result[Len(result)] = Person(target_id)
       /\ \A i, j \in 1..Len(result) : result[i] = result[j] => i = j
       /\ \A i \in 1..Len(result) :
            result[i][1] = IF i % 2 = 1 THEN "person" ELSE "movie"
       /\ Len(result) % 2 = 1
       /\ source_id = target_id => (result = <<Person(source_id)>> /\ calls = 0)

C4_Witness ==
    /\ pc = "returned" /\ result # None /\ Len(result) = 5
    /\ ~Consistent

C5_RaisedState ==
    pc = "raised"
    => /\ failed # None /\ result = None
       /\ failed[2] \notin CacheKeys(CacheOf(failed))
       /\ Lookup(failed, TRUE).called

C5_RaisingStep ==
    /\ (pc # "raised" /\ pc' = "raised") => (cacheP' = cacheP /\ cacheM' = cacheM)
    /\ pc = "raised" => (pc' = "idle" /\ cacheP' = cacheP /\ cacheM' = cacheM)

\* C5: when a provider request raises, the search ends raised with no
\* result and goes no further, the raising step leaves both caches as they
\* were, the node has no entry, and a lookup of it asks the provider again.
C5_FailureNotCached == []C5_RaisedState /\ [][C5_RaisingStep]_vars

C5_Witness ==
    /\ pc = "raised" /\ Known(failed)
    /\ cacheP # <<>> /\ cacheM # <<>>

\* C6: a call with a source or target the provider does not know ends raised
\* with nothing expanded: each visited set holds at most its root and no
\* cache has an entry.
C6_UnknownRootFailsFast ==
    (Terminal /\ ~KnownRoots)
    => /\ pc = "raised"
       /\ visited_a \subseteq {Person(source_id)}
       /\ visited_b \subseteq {Person(target_id)}
       /\ cacheP = <<>> /\ cacheM = <<>>

\* C7: person keys and movie keys share one budget of MaxSize entries.
C7_SharedBudget == Len(cacheP) + Len(cacheM) <= MaxSize

\* C8: whatever the caches hold when a call starts, what it returns is what
\* the search returns with no cache at all, so equal calls return equal
\* results.
C8_CacheIndependent ==
    pc = "returned" => result = Uncached(source_id, target_id, max_edges)

C8_Witness ==
    /\ pc = "returned" /\ source_id # target_id
    /\ result # None /\ calls = 0

ParentMapOk(parents, visited, root) ==
    /\ root \in DOMAIN parents /\ parents[root] = None
    /\ DOMAIN parents = visited
    /\ \A v \in DOMAIN parents \ {root} :
        /\ parents[v] # None
        /\ ChainLen(parents, v) = Distance(root, v)

C9_ParentMaps ==
    (pc # "idle" /\ source_id # target_id)
    => /\ ParentMapOk(pa, visited_a, Person(source_id))
       /\ ParentMapOk(pb, visited_b, Person(target_id))

C9_InsertOnly ==
    pc' # "idle"
    => /\ \A v \in DOMAIN pa : v \in DOMAIN pa' /\ pa'[v] = pa[v]
       /\ \A v \in DOMAIN pb : v \in DOMAIN pb' /\ pb'[v] = pb[v]

\* C9: each parent map sends its root to None, has the visited set as its
\* keys, gives every other node a chain to the root as long as the node's
\* distance from that root, and never loses or changes an entry.
C9_VisitedMaps == []C9_ParentMaps /\ [][C9_InsertOnly]_vars

C9_Witness ==
    /\ pc = "expandB" /\ ~Consistent
    /\ \E v \in visited_a : ChainLen(pa, v) = 2
    /\ Cardinality(visited_b) >= 2

LevelOk(q, parents, left) ==
    /\ left <= Len(q)
    /\ \A i \in 1..Len(q) :
        ChainLen(parents, q[i]) = IF i <= left THEN depth ELSE depth + 1

C10_Levels ==
    /\ pc = "loop" => LevelOk(qa, pa, Len(qa)) /\ LevelOk(qb, pb, Len(qb))
    /\ pc = "expandA" => LevelOk(qa, pa, n) /\ LevelOk(qb, pb, Len(qb))
    /\ pc = "expandB" => LevelOk(qa, pa, 0) /\ LevelOk(qb, pb, n)
    /\ Running => depth <= (IF max_edges < 0 THEN 0 ELSE max_edges + 1)

\* C10: a started search ends, returned or raised; an expand call pops only
\* the nodes its queue held when it began (the first n entries are one level,
\* the rest the next), and the rounds are bounded by max_edges.
C10_SearchEnds == []C10_Levels /\ (Running ~> Terminal)

C10_Witness ==
    /\ pc = "returned" /\ result = None
    /\ qa # <<>> /\ qb # <<>>
    /\ depth = max_edges + 1 /\ depth >= 1

====
